---------------------------- MODULE Spec2Model ----------------------------
(***************************************************************************)
(* Looney Race (src/looney_race.cpp): four character threads (B, D, T, M)  *)
(* move on a SIZE x SIZE board under one pthread mutex.  The model keeps   *)
(* the globals of the program under their own names and gives one action   *)
(* to every step of character_thread that another thread can interleave    *)
(* with: the unlocked while-condition, pthread_mutex_lock, the locked      *)
(* body (three exits: re-check, step cap, move) and pthread_mutex_unlock.  *)
(***************************************************************************)
EXTENDS Integers, FiniteSets, Sequences, TLC

\* Board side.  The program uses 5 (looney_race.cpp:19); the model runs the
\* same code on a smaller board so that the state space stays finite.
SIZE == 3

MAX_STEPS == 100

\* The step cap the exhaustive specification runs with, in place of MAX_STEPS:
\* the same test of line 128 against a cap small enough to explore every
\* interleaving up to it.
StepCap == 3

\* The number of turns the turn-by-turn specification explores.
MaxTurns == 4

CARROTS == 2

CYCLES_PER_TIME_MACHINE == 3

NCHARS == 4

MARVIN == 3

VARIABLES
    board,           \* char board[SIZE][SIZE], indexed by <<x, y>>
    characters,      \* Character characters[4] (x, y, has_carrot, alive)
    carrots_placed,
    cycle_count,
    game_over,
    step_count,
    max_steps,       \* the value MAX_STEPS is compiled with; never written
    mutex,           \* -1 when free, else the id of the holding thread
    pc,              \* position of each character thread
    mainpc,          \* position of main: "join" or "exit"
    aborted,         \* the process was killed by the stray write of move_mountain
    turn,            \* what the locked body just did (cleared by the unlock)
    winner,          \* the id printed by "wins the race!" / "is declared the
                     \* winner!" (lines 132, 188), -1 while nothing was printed
    marvin_turns     \* how many times Marvin's thread has passed line 124

vars == <<board, characters, carrots_placed, cycle_count, game_over,
          step_count, max_steps, mutex, pc, mainpc, aborted, turn, winner,
          marvin_turns>>

Ids == 0 .. (NCHARS - 1)

Cells == (0 .. (SIZE - 1)) \X (0 .. (SIZE - 1))

Dirs == 0 .. 3

syms == <<"B", "D", "T", "M">>

Symbol(i) == syms[i + 1]

dx == <<0, 0, 1, -1>>

dy == <<1, -1, 0, 0>>

is_valid(x, y) == x >= 0 /\ x < SIZE /\ y >= 0 /\ y < SIZE

Pos(c) == <<c.x, c.y>>

NoTurn == [who |-> -1, kind |-> "none", dir |-> -1, oob |-> FALSE,
           target |-> ".", had |-> 0, victims |-> {}, relocated |-> FALSE]

(***************************************************************************)
(* init_board: the mountain, the two carrots and the four characters on    *)
(* seven distinct cells, nobody carrying, everybody alive.  A placement is *)
(* written <<F, C, C, B, D, T, M>>.  Layouts (nobody next to Marvin) is    *)
(* where the turn-by-turn specifications start, NearLayouts (B next to     *)
(* Marvin, so that an elimination can be the first turn) where the         *)
(* exhaustive one starts.                                                  *)
(***************************************************************************)
Layouts ==
    { << <<2, 1>>, <<1, 1>>, <<2, 2>>, <<0, 1>>, <<1, 0>>, <<0, 0>>, <<1, 2>> >> }

NearLayouts ==
    { << <<2, 1>>, <<1, 1>>, <<2, 2>>, <<0, 2>>, <<1, 0>>, <<0, 0>>, <<1, 2>> >> }

init_board(l) ==
    /\ board = [cell \in Cells |->
                  IF cell = l[1] THEN "F"
                  ELSE IF cell = l[2] \/ cell = l[3] THEN "C"
                  ELSE IF \E i \in Ids : cell = l[4 + i]
                       THEN Symbol(CHOOSE i \in Ids : cell = l[4 + i])
                  ELSE "."]
    /\ characters = [i \in Ids |->
                       [x |-> l[4 + i][1], y |-> l[4 + i][2],
                        has_carrot |-> 0, alive |-> 1]]

Start(ls) ==
    /\ \E l \in ls : init_board(l)
    /\ carrots_placed = 0
    /\ cycle_count = 0
    /\ game_over = 0
    /\ step_count = 0
    /\ mutex = -1
    /\ pc = [i \in Ids |-> "loop"]
    /\ mainpc = "join"
    /\ aborted = FALSE
    /\ turn = NoTurn
    /\ winner = -1
    /\ marvin_turns = 0

Init == Start(NearLayouts) /\ max_steps = StepCap


(***************************************************************************)
(* The pieces of one turn (character_thread, lines 141-196), each computed *)
(* as the code computes it.                                                *)
(***************************************************************************)

\* Active with the liveness test dropped.
ActiveIgnoringAlive(i) == game_over = 0

\* Active with the game_over test dropped.
ActiveIgnoringGameOver(i) == characters[i].alive = 1

\* Loop condition, and the same test repeated under the mutex (lines 114, 119).
Active(i) == game_over = 0 /\ characters[i].alive = 1

\* A lock that never blocks.
MutexAlwaysFree == TRUE

\* pthread_mutex_lock returns only when nobody holds the mutex.
MutexFree == mutex = -1

\* The cap tested with > in place of >=.
StepCapPassed(n) == n > max_steps

\* step_count >= MAX_STEPS, tested on the counter just incremented (line 128).
StepCapReached(n) == n >= max_steps

\* Lines 142-143: the old cell is cleared only if it shows the mover's symbol.
ClearOld(b, i) ==
    IF b[Pos(characters[i])] = Symbol(i)
    THEN [b EXCEPT ![Pos(characters[i])] = "."]
    ELSE b

\* Lines 147-150: the neighbour in direction dir, or the own cell when that
\* neighbour is off the board.
OutOfBounds(i, dir) ==
    ~is_valid(characters[i].x + dx[dir + 1], characters[i].y + dy[dir + 1])

\* Proposed with the board wrapping around at its edges.
ProposedWrapping(i, dir) ==
    <<(characters[i].x + dx[dir + 1]) % SIZE, (characters[i].y + dy[dir + 1]) % SIZE>>

Proposed(i, dir) ==
    IF OutOfBounds(i, dir)
    THEN Pos(characters[i])
    ELSE <<characters[i].x + dx[dir + 1], characters[i].y + dy[dir + 1]>>

\* Victims with the elimination open to every mover.
VictimsOfAnyone(i, n) ==
    {j \in Ids : j # i /\ characters[j].alive = 1 /\ Pos(characters[j]) = n}

\* Lines 155-158: the characters Marvin's loop eliminates at cell n.
Victims(i, n) ==
    IF Symbol(i) = "M"
    THEN {j \in Ids : j # i /\ characters[j].alive = 1 /\ Pos(characters[j]) = n}
    ELSE {}

\* Lines 159-161: Marvin's flag is SET to 1 when a victim carries.
StolenFlag(i, vs) ==
    IF \E j \in vs : characters[j].has_carrot = 1 THEN 1
    ELSE characters[i].has_carrot

\* Lines 172-174: the veto, on the flag as it stands after the elimination.
Vetoed(target, has) == target = "F" /\ has = 0

\* Lines 177-180.
PicksUp(target, has) == target = "C" /\ has = 0

\* Lines 183-191.
Delivers(target, has) == target = "F" /\ has = 1

\* The win test passing one delivery early.
WinReachedEarly(placed) == placed >= CARROTS - 1

\* The win test passing one delivery late.
WinReachedLate(placed) == placed > CARROTS

\* Line 187, on the count just incremented.
WinReached(placed) == placed = CARROTS

\* The last living character instead of the first.
LastAlive(chs) ==
    CHOOSE j \in Ids : chs[j].alive = 1 /\ \A k \in Ids : chs[k].alive = 1 => k <= j

\* Lines 130-135: the first living character in the order of the array.
FirstAlive(chs) ==
    CHOOSE j \in Ids : chs[j].alive = 1 /\ \A k \in Ids : chs[k].alive = 1 => j <= k

\* The time machine firing for whoever moves on a due cycle.
TimeMachineDueForAnyone(i, cycles) == cycles % CYCLES_PER_TIME_MACHINE = 0

\* Line 203.
TimeMachineDue(i, cycles) ==
    cycles % CYCLES_PER_TIME_MACHINE = 0 /\ Symbol(i) = "M"

(***************************************************************************)
(* Resolve(i, dir): lines 141-196 for character i and direction dir, as a  *)
(* record of everything the turn writes before the time machine.           *)
(***************************************************************************)
Resolve(i, dir) ==
    LET me     == characters[i]
        b0     == ClearOld(board, i)
        n      == Proposed(i, dir)
        target == b0[n]
        vs     == Victims(i, n)
        has1   == StolenFlag(i, vs)
        b1     == [cell \in Cells |->
                     IF \E j \in vs : Pos(characters[j]) = cell THEN "."
                     ELSE b0[cell]]
        dest   == IF Vetoed(target, has1) THEN Pos(me) ELSE n
        has2   == IF PicksUp(target, has1) THEN 1 ELSE has1
        deliv  == Delivers(target, has2)
        placed == IF deliv THEN carrots_placed + 1 ELSE carrots_placed
        has3   == IF deliv THEN 0 ELSE has2
        won    == deliv /\ WinReached(placed)
        over   == IF won THEN 1 ELSE game_over
    IN  [board |-> [b1 EXCEPT ![dest] = Symbol(i)],
         characters |->
            [j \in Ids |->
                IF j = i
                THEN [x |-> dest[1], y |-> dest[2],
                      has_carrot |-> has3, alive |-> me.alive]
                ELSE IF j \in vs
                THEN [characters[j] EXCEPT !.has_carrot = 0, !.alive = 0]
                ELSE characters[j]],
         carrots_placed |-> placed,
         game_over |-> over,
         won |-> won,
         target |-> target,
         victims |-> vs]

(***************************************************************************)
(* move_mountain (lines 86-107).  The search keeps the last row holding an *)
(* 'F' and the first 'F' of that row (the break leaves the inner loop      *)
(* only).  With no 'F' on the board old_x = old_y = -1 and line 104 writes *)
(* board[-1][-1], outside the array.                                       *)
(***************************************************************************)
Mountains(b) == {cell \in Cells : b[cell] = "F"}

EmptyCells(b) == {cell \in Cells : b[cell] = "."}

OldMountain(b) ==
    CHOOSE o \in Mountains(b) :
        \A m \in Mountains(b) : m[1] < o[1] \/ (m[1] = o[1] /\ o[2] <= m[2])

\* What the out-of-bounds store of line 104 can do: land in memory that holds
\* none of the program's variables (the padding in front of board in the gcc
\* builds), or stop the process (a checked or hardened build).
StrayWrite == {"absorbed", "abort"}

move_mountain(b, new) ==
    IF Mountains(b) = {}
    THEN [b EXCEPT ![new] = "F"]
    ELSE [b EXCEPT ![OldMountain(b)] = ".", ![new] = "F"]

(***************************************************************************)
(* The steps of character_thread.                                          *)
(***************************************************************************)

\* while (!game_over && c->alive), read without the mutex (line 114); the
\* usleep follows.
Check(i) ==
    /\ ~aborted
    /\ pc[i] = "loop"
    /\ pc' = [pc EXCEPT ![i] = IF Active(i) THEN "sleep" ELSE "stopped"]
    /\ UNCHANGED <<board, characters, carrots_placed, cycle_count, game_over,
                   step_count, max_steps, mutex, mainpc, aborted, turn, winner,
                   marvin_turns>>

\* pthread_mutex_lock (line 118).
Lock(i) ==
    /\ ~aborted
    /\ pc[i] = "sleep"
    /\ MutexFree
    /\ mutex' = i
    /\ pc' = [pc EXCEPT ![i] = "locked"]
    /\ UNCHANGED <<board, characters, carrots_placed, cycle_count, game_over,
                   step_count, max_steps, mainpc, aborted, turn, winner,
                   marvin_turns>>

\* Lines 119-122: the re-check fails; unlock and break.
LockedExit(i) ==
    /\ ~aborted
    /\ pc[i] = "locked"
    /\ ~Active(i)
    /\ pc' = [pc EXCEPT ![i] = "unlock_exit"]
    /\ turn' = [NoTurn EXCEPT !.who = i, !.kind = "exit"]
    /\ UNCHANGED <<board, characters, carrots_placed, cycle_count, game_over,
                   step_count, max_steps, mutex, mainpc, aborted, winner,
                   marvin_turns>>

\* Lines 124-139: the counters advance and the cap is reached; the first
\* living character is declared winner, game_over is set, unlock and break.
StepCapTurn(i) ==
    /\ ~aborted
    /\ pc[i] = "locked"
    /\ Active(i)
    /\ StepCapReached(step_count + 1)
    /\ cycle_count' = cycle_count + 1
    /\ step_count' = step_count + 1
    /\ marvin_turns' = IF i = MARVIN THEN marvin_turns + 1 ELSE marvin_turns
    /\ game_over' = IF \E j \in Ids : characters[j].alive = 1 THEN 1 ELSE game_over
    /\ winner' = IF \E j \in Ids : characters[j].alive = 1
                 THEN FirstAlive(characters) ELSE winner
    /\ pc' = [pc EXCEPT ![i] = "unlock_exit"]
    /\ turn' = [NoTurn EXCEPT !.who = i, !.kind = "cap"]
    /\ UNCHANGED <<board, characters, carrots_placed, max_steps, mutex, mainpc,
                   aborted>>

\* Lines 124-205: a move in direction dir, then Marvin's time machine.
MoveTurn(i, dir) ==
    /\ ~aborted
    /\ pc[i] = "locked"
    /\ Active(i)
    /\ ~StepCapReached(step_count + 1)
    /\ cycle_count' = cycle_count + 1
    /\ step_count' = step_count + 1
    /\ marvin_turns' = IF i = MARVIN THEN marvin_turns + 1 ELSE marvin_turns
    /\ LET r  == Resolve(i, dir)
           t  == [who |-> i, kind |-> "move", dir |-> dir,
                  oob |-> OutOfBounds(i, dir), target |-> r.target,
                  had |-> characters[i].has_carrot, victims |-> r.victims,
                  relocated |-> FALSE]
       IN  /\ characters' = r.characters
           /\ carrots_placed' = r.carrots_placed
           /\ game_over' = r.game_over
           /\ winner' = IF r.won THEN i ELSE winner
           /\ IF TimeMachineDue(i, cycle_count + 1)
              THEN \E new \in EmptyCells(r.board) :
                     \E ub \in StrayWrite :
                        IF Mountains(r.board) = {} /\ ub = "abort"
                        THEN /\ board' = r.board
                             /\ aborted' = TRUE
                             /\ pc' = pc
                             /\ turn' = t
                        ELSE /\ board' = move_mountain(r.board, new)
                             /\ aborted' = aborted
                             /\ pc' = [pc EXCEPT ![i] = "unlock"]
                             /\ turn' = [t EXCEPT !.relocated = TRUE]
              ELSE /\ board' = r.board
                   /\ aborted' = aborted
                   /\ pc' = [pc EXCEPT ![i] = "unlock"]
                   /\ turn' = t
    /\ UNCHANGED <<max_steps, mutex, mainpc>>

\* pthread_mutex_unlock (lines 120, 137, 208), then the break or the loop.
Unlock(i) ==
    /\ ~aborted
    /\ pc[i] \in {"unlock", "unlock_exit"}
    /\ mutex' = -1
    /\ pc' = [pc EXCEPT ![i] = IF pc[i] = "unlock" THEN "loop" ELSE "stopped"]
    /\ turn' = NoTurn
    /\ UNCHANGED <<board, characters, carrots_placed, cycle_count, game_over,
                   step_count, max_steps, mainpc, aborted, winner, marvin_turns>>

\* main: the four pthread_join calls return, "Game Over." (lines 264-270).
MainJoin ==
    /\ ~aborted
    /\ mainpc = "join"
    /\ \A i \in Ids : pc[i] = "stopped"
    /\ mainpc' = "exit"
    /\ UNCHANGED <<board, characters, carrots_placed, cycle_count, game_over,
                   step_count, max_steps, mutex, pc, aborted, turn, winner,
                   marvin_turns>>

Next ==
    \/ \E i \in Ids : Check(i)
    \/ \E i \in Ids : Lock(i)
    \/ \E i \in Ids : LockedExit(i)
    \/ \E i \in Ids : StepCapTurn(i)
    \/ \E i \in Ids : \E dir \in Dirs : MoveTurn(i, dir)
    \/ \E i \in Ids : Unlock(i)
    \/ MainJoin

Spec == Init /\ [][Next]_vars


(***************************************************************************)
(* Turn-by-turn schedules.  The mutex promises no order among the threads, *)
(* so a run in which each thread goes through a whole iteration (loop      *)
(* test, lock, body, unlock) before the next thread leaves its loop test   *)
(* is a run of the program.  Both specifications below explore such runs   *)
(* with the program's own step cap, every direction and every relocation   *)
(* target free: TurnSpec lets any thread take each of the first MaxTurns   *)
(* turns, DeepSpec goes further along one order of the threads (the k-th   *)
(* turn is taken by Script[k]).                                            *)
(***************************************************************************)
Quiet == \A j \in Ids : pc[j] \in {"loop", "stopped"}

TurnInit == Start(Layouts) /\ max_steps = MAX_STEPS

TurnNext ==
    \/ \E i \in Ids : Quiet /\ step_count < MaxTurns /\ Check(i)
    \/ \E i \in Ids : Lock(i)
    \/ \E i \in Ids : \E dir \in Dirs : MoveTurn(i, dir)
    \/ \E i \in Ids : Unlock(i)

TurnSpec == TurnInit /\ [][TurnNext]_vars

Script == <<0, 1, 1, 2, 2, 3, 3>>

Scheduled(i) ==
    /\ Quiet
    /\ step_count < Len(Script)
    /\ Script[step_count + 1] = i

DeepInit == Start(Layouts) /\ max_steps = MAX_STEPS

DeepNext ==
    \/ \E i \in Ids : Scheduled(i) /\ Check(i)
    \/ \E i \in Ids : Lock(i)
    \/ \E i \in Ids : \E dir \in Dirs : MoveTurn(i, dir)
    \/ \E i \in Ids : Unlock(i)

DeepSpec == DeepInit /\ [][DeepNext]_vars

(***************************************************************************)
(* CapSpec: the turns of whole games.  Any thread takes each turn before   *)
(* the cap, which is one above MaxTurns, so that a game ends either by the *)
(* second delivery or by the cap; the turn that reaches the cap goes to    *)
(* the first thread that has not returned.  What the threads do once the   *)
(* game is over is left to Spec.                                           *)
(***************************************************************************)
TurnCap == MaxTurns + 1

\* Every thread created before thread i has returned.
FirstRunning(i) == \A j \in Ids : j < i => pc[j] = "stopped"

CapInit == Start(Layouts) /\ max_steps = TurnCap

CapNext ==
    \/ \E i \in Ids :
          /\ Quiet
          /\ game_over = 0
          /\ StepCapReached(step_count + 1) => FirstRunning(i)
          /\ Check(i)
    \/ \E i \in Ids : Lock(i)
    \/ \E i \in Ids : StepCapTurn(i)
    \/ \E i \in Ids : \E dir \in Dirs : MoveTurn(i, dir)
    \/ \E i \in Ids : Unlock(i)

CapSpec == CapInit /\ [][CapNext]_vars


(***************************************************************************)
(* Vocabulary of the properties.                                           *)
(***************************************************************************)

\* No thread is inside the critical section: a state another thread (or an
\* observer taking the mutex) can see.
Released == mutex = -1

Living(chs) == {i \in Ids : chs[i].alive = 1}

Carrying(chs) == {i \in Ids : chs[i].has_carrot = 1}

ItemCells(b) == {cell \in Cells : b[cell] = "C"}

ItemCount(b, chs, placed) ==
    Cardinality(ItemCells(b)) + Cardinality(Carrying(chs)) + placed

SymbolCells(b, i) == {cell \in Cells : b[cell] = Symbol(i)}

InCriticalSection(i) == pc[i] \in {"locked", "unlock", "unlock_exit"}

\* The step is character i's move in direction d.
Moves(i, d) ==
    /\ pc[i] = "locked"
    /\ turn'.kind = "move" /\ turn'.who = i /\ turn'.dir = d

(***************************************************************************)
(* C1.  Single occupancy: whenever the mutex is free, no two living        *)
(* characters have the same (x, y).                                        *)
(***************************************************************************)
C1_SingleOccupancy ==
    Released =>
        \A i, j \in Living(characters) :
            i # j => Pos(characters[i]) # Pos(characters[j])

(***************************************************************************)
(* C2.  Item conservation: whenever the mutex is free, the carrots on the  *)
(* board, the characters carrying one and carrots_placed add up to         *)
(* CARROTS.                                                                *)
(***************************************************************************)
C2_ItemConservation ==
    Released => ItemCount(board, characters, carrots_placed) = CARROTS

(***************************************************************************)
(* C3.  Death is terminal: no step brings a dead character back to life,   *)
(* and after every step no cell shows the symbol of a character that is    *)
(* dead, the step of its elimination and the later steps of its own        *)
(* thread included.                                                        *)
(***************************************************************************)
C3_DeathIsTerminal ==
    [][\A i \in Ids :
          /\ characters[i].alive = 0 => characters'[i].alive = 0
          /\ characters'[i].alive = 0 => SymbolCells(board', i) = {}]_vars

\* An eliminated character's thread has taken the mutex, found itself dead
\* while the game still runs, and is leaving.
C3_Witness ==
    \E i \in Ids :
        /\ characters[i].alive = 0
        /\ game_over = 0
        /\ pc[i] = "unlock_exit"
        /\ turn.who = i /\ turn.kind = "exit"

(***************************************************************************)
(* C4.  Grid/actor consistency: whenever the mutex is free, a character's  *)
(* symbol is on the board, at the character's own cell and nowhere else,   *)
(* exactly when the character is alive.                                    *)
(***************************************************************************)
C4_GridActorConsistency ==
    Released =>
        \A i \in Ids :
            SymbolCells(board, i) =
                IF characters[i].alive = 1 THEN {Pos(characters[i])} ELSE {}

(***************************************************************************)
(* C5.  Goal impassability: a character that starts its move without a    *)
(* carrot and targets the goal ends the move where it was, carrots_placed  *)
(* unchanged; one that starts with a carrot and targets the goal ends on   *)
(* the goal cell without the carrot, carrots_placed one higher.            *)
(***************************************************************************)
C5_GoalImpassability ==
    [][\A i \in Ids : \A d \in Dirs :
          (Moves(i, d) /\ Resolve(i, d).target = "F") =>
             /\ characters[i].has_carrot = 0 =>
                  /\ Pos(characters'[i]) = Pos(characters[i])
                  /\ carrots_placed' = carrots_placed
             /\ characters[i].has_carrot = 1 =>
                  /\ Pos(characters'[i]) = Proposed(i, d)
                  /\ characters'[i].has_carrot = 0
                  /\ carrots_placed' = carrots_placed + 1]_vars

C7_Elimination ==
    [][\A d \in Dirs :
          (Moves(MARVIN, d) /\ Victims(MARVIN, Proposed(MARVIN, d)) # {}) =>
             LET vs == Victims(MARVIN, Proposed(MARVIN, d))
             IN  /\ \A j \in vs :
                       /\ characters'[j].alive = 0
                       /\ characters'[j].has_carrot = 0
                       /\ SymbolCells(board', j) = {}
                 /\ (\E j \in vs : characters[j].has_carrot = 1) =>
                       characters'[MARVIN].has_carrot = 1
                 /\ ItemCount(board', characters', carrots_placed') =
                       ItemCount(board, characters, carrots_placed)]_vars

(***************************************************************************)
(* C8.  Step cap: step_count never exceeds the cap; whenever the mutex is  *)
(* free and step_count equals the cap, game_over is 1; and the step that   *)
(* raises step_count to the cap moves nothing (board, characters and       *)
(* carrots_placed stay as they were).                                      *)
(***************************************************************************)
C8_StepCap ==
    [][/\ step_count' <= max_steps
       /\ (mutex' = -1 /\ step_count' = max_steps) => game_over' = 1
       /\ (step_count' = max_steps /\ step_count # max_steps) =>
             /\ board' = board
             /\ characters' = characters
             /\ carrots_placed' = carrots_placed
             /\ game_over' = 1]_vars

\* The cap has been reached and the mutex is free again.
C8_Witness ==
    /\ step_count = max_steps
    /\ game_over = 1
    /\ Released
    /\ carrots_placed < CARROTS

(***************************************************************************)
(* C9.  Termination: a run can only come to rest with game_over = 1, all   *)
(* four character threads out of their loop and main past its joins (under *)
(* weak fairness of every step, the claim's "eventually").                 *)
(***************************************************************************)
Done ==
    /\ game_over = 1
    /\ \A i \in Ids : pc[i] = "stopped"
    /\ mainpc = "exit"

C10_MutualExclusion ==
    [][/\ \A i, j \in Ids :
             (InCriticalSection(i)' /\ InCriticalSection(j)') => i = j
       /\ \A i \in Ids : InCriticalSection(i)' <=> mutex' = i
       /\ (<<board, characters, carrots_placed, cycle_count, game_over,
             step_count>>' #
           <<board, characters, carrots_placed, cycle_count, game_over,
             step_count>>) =>
              (mutex # -1 /\ mutex' = mutex /\ pc[mutex] = "locked")]_vars

\* One thread has finished a move inside the critical section while the
\* three others wait for the mutex.
C10_Witness ==
    \E i \in Ids :
        /\ mutex = i
        /\ pc[i] = "unlock"
        /\ turn.kind = "move"
        /\ \A j \in Ids \ {i} : pc[j] = "sleep"

(***************************************************************************)
(* C11.  No lock-free access: a thread reads shared state only while it    *)
(* holds the mutex; in particular it evaluates its loop condition (a read  *)
(* of game_over and of its alive flag) as the holder of the mutex, with no *)
(* other thread inside the critical section.                               *)
(***************************************************************************)
C11_NoLockFreeAccess ==
    [][\A i \in Ids :
          (pc[i] = "loop" /\ pc'[i] # "loop") =>
              /\ mutex = i
              /\ \A j \in Ids \ {i} : ~InCriticalSection(j)]_vars

(***************************************************************************)
(* C12.  Win condition: whenever the mutex is free, game_over is 1 exactly *)
(* when carrots_placed = CARROTS or step_count has reached the cap; a move *)
(* sets game_over exactly when it is the delivery that raises              *)
(* carrots_placed to CARROTS, and that move announces its own character as *)
(* the winner, the first announcement of the run.                          *)
(***************************************************************************)
C12_WinCondition ==
    [][/\ mutex' = -1 =>
             (game_over' = 1 <=>
                 (carrots_placed' = CARROTS \/ step_count' >= max_steps))
       /\ \A i \in Ids : \A d \in Dirs :
             Moves(i, d) =>
                /\ (game_over = 0 /\ game_over' = 1) <=>
                      (carrots_placed' = CARROTS /\ carrots_placed = CARROTS - 1)
                /\ (game_over = 0 /\ game_over' = 1) =>
                      /\ Resolve(i, d).target = "F"
                      /\ winner = -1
                      /\ winner' = i
                /\ game_over' = game_over => winner' = winner]_vars

\* The second delivery has just been made, before the step cap: the game is
\* over and the deliverer is the announced winner.
C12_Witness ==
    /\ turn.kind = "move"
    /\ turn.target = "F"
    /\ carrots_placed = CARROTS
    /\ game_over = 1
    /\ winner = turn.who
    /\ step_count < max_steps
    /\ pc[turn.who] = "unlock"

(***************************************************************************)
(* C13.  Quiescence after game-over: from a state with game_over = 1 no    *)
(* step changes the board, a character record, carrots_placed, cycle_count *)
(* or step_count, or game_over itself; a thread that holds the mutex in    *)
(* such a state leaves through the re-check of line 119.                   *)
(***************************************************************************)
C13_Quiescence ==
    [][game_over = 1 =>
          /\ board' = board
          /\ characters' = characters
          /\ carrots_placed' = carrots_placed
          /\ cycle_count' = cycle_count
          /\ step_count' = step_count
          /\ game_over' = 1
          /\ winner' = winner
          /\ \A i \in Ids :
                (pc[i] = "locked" /\ pc'[i] # "locked") =>
                    (pc'[i] = "unlock_exit" /\ turn'.kind = "exit")]_vars

\* A living character's thread took the mutex after the game was over and is
\* leaving without a turn.
C13_Witness ==
    \E i \in Ids :
        /\ game_over = 1
        /\ characters[i].alive = 1
        /\ pc[i] = "unlock_exit"
        /\ turn.who = i /\ turn.kind = "exit"

(***************************************************************************)
(* C16.  Step-cap winner: the turn that brings step_count to the cap       *)
(* declares the living character with the lowest id the winner and sets    *)
(* game_over, whichever thread takes that turn and whoever carries.        *)
(***************************************************************************)
C16_StepCapWinner ==
    [][(step_count' = max_steps /\ step_count # max_steps) =>
          /\ turn'.kind = "cap"
          /\ game_over' = 1
          /\ characters[winner'].alive = 1
          /\ \A k \in Living(characters) : winner' <= k]_vars

\* The cap turn was taken after B's elimination by a thread other than the
\* winner's.
C16_Witness ==
    /\ turn.kind = "cap"
    /\ characters[0].alive = 0
    /\ winner = 1
    /\ turn.who # winner
    /\ pc[turn.who] = "unlock_exit"

(***************************************************************************)
(* C18.  Marvin is alive in every reachable state, so some character is    *)
(* always alive; and a step-cap turn has always named a living winner and  *)
(* set game_over.                                                          *)
(***************************************************************************)
C18_MarvinAlive ==
    /\ characters[MARVIN].alive = 1
    /\ Living(characters) # {}
    /\ turn.kind = "cap" => (game_over = 1 /\ winner \in Living(characters))

\* Marvin has just eliminated a character standing on the cell it moved to.
C18_Witness ==
    /\ turn.kind = "move"
    /\ turn.who = MARVIN
    /\ turn.victims # {}
    /\ Living(characters) # Ids
    /\ pc[MARVIN] = "unlock"

\* The step is a move after which line 204 called move_mountain: the goal
\* was relocated, or the store of line 104 stopped the process.
TimeMachineFired == turn'.relocated \/ (aborted' /\ ~aborted)

(***************************************************************************)
(* C14.  Time-machine period, as claimed: the time machine fires at the    *)
(* end of a move exactly when the mover is Marvin and the number of turns  *)
(* Marvin has taken, this one included, is a multiple of                   *)
(* CYCLES_PER_TIME_MACHINE.                                                *)
(***************************************************************************)
C14_MarvinPeriod ==
    [][\A i \in Ids : \A d \in Dirs :
          Moves(i, d) =>
             (TimeMachineFired <=>
                 (i = MARVIN /\ marvin_turns' % CYCLES_PER_TIME_MACHINE = 0))]_vars

(***************************************************************************)
(* C14, amended.  The time machine fires at the end of a move exactly when *)
(* the mover is Marvin and cycle_count, which the turn of every character  *)
(* has incremented, is a multiple of CYCLES_PER_TIME_MACHINE; it fires on  *)
(* no other step, the turn that reaches the step cap included.             *)
(***************************************************************************)
C14_GlobalPeriod ==
    [][/\ \A i \in Ids : \A d \in Dirs :
             Moves(i, d) =>
                (TimeMachineFired <=>
                    (i = MARVIN /\ cycle_count' % CYCLES_PER_TIME_MACHINE = 0))
       /\ turn'.kind # "move" => ~TimeMachineFired]_vars

\* Marvin's first turn fell on a cycle that is a multiple of three and has
\* relocated the goal.
C14_Witness ==
    /\ turn.kind = "move"
    /\ turn.who = MARVIN
    /\ turn.relocated
    /\ marvin_turns = 1
    /\ cycle_count % CYCLES_PER_TIME_MACHINE = 0
    /\ pc[MARVIN] = "unlock"

(***************************************************************************)
(* C15.  Relocation target is empty: when Marvin's move ends with a        *)
(* relocation, the goal marker is afterwards on one cell, which is not the *)
(* cell it was on, held no marker and is the position of no living         *)
(* character; and the cell it was on is empty.                             *)
(***************************************************************************)
C15_RelocationTarget ==
    [][\A d \in Dirs :
          (Moves(MARVIN, d) /\ turn'.relocated) =>
             LET olds == Mountains(Resolve(MARVIN, d).board)
                 news == Mountains(board')
             IN  /\ Cardinality(news) = 1
                 /\ news \cap olds = {}
                 /\ \A n \in news :
                       /\ Resolve(MARVIN, d).board[n] = "."
                       /\ \A j \in Living(characters') :
                             Pos(characters'[j]) # n
                 /\ \A o \in olds : board'[o] = "."]_vars

(***************************************************************************)
(* C17.  Goal existence: whenever the mutex is free, exactly one cell of   *)
(* the board holds the goal marker 'F'.                                    *)
(***************************************************************************)
C17_GoalExists ==
    Released => Cardinality(Mountains(board)) = 1

(***************************************************************************)
(* C19.  Counter discipline: no step decreases carrots_placed, cycle_count *)
(* or step_count or resets game_over; carrots_placed stays within          *)
(* 0 .. CARROTS and grows by one at a time, so that the step which brings  *)
(* it to CARROTS is seen by the test of line 187 and sets game_over.       *)
(***************************************************************************)
C19_CounterDiscipline ==
    [][/\ carrots_placed' \in {carrots_placed, carrots_placed + 1}
       /\ cycle_count' >= cycle_count
       /\ step_count' >= step_count
       /\ game_over = 1 => game_over' = 1
       /\ carrots_placed' >= 0
       /\ carrots_placed' <= CARROTS
       /\ (carrots_placed' = CARROTS /\ carrots_placed # CARROTS) =>
             game_over' = 1]_vars

\* Both carrots have been delivered and the mutex is free again.
C19_Witness ==
    /\ carrots_placed = CARROTS
    /\ game_over = 1
    /\ Released
    /\ cycle_count = step_count
    /\ step_count < max_steps

\* A step of the thread that holds the mutex.
HolderStep ==
    \E i \in Ids :
        /\ mutex = i
        /\ \/ LockedExit(i)
           \/ StepCapTurn(i)
           \/ \E dir \in Dirs : MoveTurn(i, dir)
           \/ Unlock(i)

=============================================================================
